---- MODULE Spec2Model ----
(***************************************************************************)
(* Model of rustc_passes::check_const: the HIR pass that rejects loops and *)
(* matches in const contexts unless the matching feature gates allow them, *)
(* and that checks const trait impls for non-const default functions.      *)
(***************************************************************************)
EXTENDS Integers, Sequences, FiniteSets, TLC

\* session:    what tcx.features() and tcx.sess answer (check_const.rs 143-216)
\* const_kind: CheckConstVisitor::const_kind (130)
\* def_id:     CheckConstVisitor::def_id (131)
\* stack:      the calls of visit_item, visit_body and visit_anon_const in
\*             progress, with recurse_into's saved locals (232-245)
\* diags:      the diagnostics emitted so far, in order (114-121, 187, 205-226)
\* items:      how many items of the module visit_item was called for (58-61)
\* last:       the visitor method that ran last, with the const_kind visit_expr read
\* probe:      arguments and result of one direct call of a function
VARIABLES session, const_kind, def_id, stack, diags, items, last, probe

vars == <<session, const_kind, def_id, stack, diags, items, last, probe>>

----------------------------------------------------------------------------
(* Bounds of the model *)

\* nesting depth of bodies and anonymous consts below an item
MaxDepth == 2
\* diagnostics for nested constructs the sink holds before the walk raises no more
MaxDiags == 1
\* items of the module
MaxItems == 1
\* declarations that own bodies
NumDecls == 1
\* length of a required gate list handed to the gate resolver
MaxGates == 2
\* associated items of a trait
MaxTraitItems == 2

----------------------------------------------------------------------------
(* Values *)

\* Option::None of const_kind
None == "None"
\* Option::None of def_id
NoDefId == 0
DefIds == 1 .. NumDecls

Gates == {"const_for", "const_try"}
ConstContext == {"ConstFn", "Static", "Const"}
LoopSource == {"Loop", "While", "ForLoop"}
MatchSource == {"Normal", "ForLoopDesugar", "TryDesugar", "AwaitDesugar"}

Loop(src) == [tag |-> "Loop", src |-> src]
Match(src) == [tag |-> "Match", src |-> src]
NonConstExpr == {Loop(s) : s \in LoopSource} \cup {Match(s) : s \in MatchSource}
\* hir::ExprKind as visit_expr distinguishes it: Loop, Match, anything else
Other == [tag |-> "Other", src |-> "Other"]
ExprKind == NonConstExpr \cup {Other}

\* the answers of the session: tcx.features() and tcx.sess
Sessions == [features : SUBSET Gates, staged_api : BOOLEAN, nightly : BOOLEAN, unleash : BOOLEAN]
\* the answers of the tcx queries about one declaration
Decls == [in_trait : BOOLEAN, const_unstable : BOOLEAN, allow : SUBSET Gates]

NoGates == [some |-> FALSE, gates |-> <<>>]
SomeGates(gs) == [some |-> TRUE, gates |-> gs]

----------------------------------------------------------------------------
(* NonConstExpr::required_feature_gates *)

\* variant: the await desugaring falls under "all other expressions are allowed"
required_feature_gates_await_allowed(expr) == IF expr \in {Loop("ForLoop"), Match("ForLoopDesugar")} THEN SomeGates(<<"const_for">>) ELSE IF expr = Match("TryDesugar") THEN SomeGates(<<"const_try">>) ELSE SomeGates(<<>>)

required_feature_gates(expr) ==
  IF expr = Match("AwaitDesugar") THEN NoGates
  ELSE IF expr \in {Loop("ForLoop"), Match("ForLoopDesugar")} THEN SomeGates(<<"const_for">>)
  ELSE IF expr = Match("TryDesugar") THEN SomeGates(<<"const_try">>)
  ELSE SomeGates(<<>>)

(* the closure is_feature_allowed of const_check_violated *)

\* variant: rustc_allow_const_fn_unstable stands in for the crate's feature gate
is_feature_allowed_by_list(feature_gate, def, decl, sess) == (def # NoDefId /\ feature_gate \in decl.allow) \/ (feature_gate \in sess.features /\ (def = NoDefId \/ decl.in_trait \/ ~sess.staged_api \/ decl.const_unstable))

\* variant: the stability attributes are not consulted
is_feature_allowed_enabled_only(feature_gate, def, decl, sess) == feature_gate \in sess.features

is_feature_allowed(feature_gate, def, decl, sess) ==
  IF feature_gate \notin sess.features THEN FALSE
  ELSE IF def = NoDefId THEN TRUE
  ELSE IF decl.in_trait THEN TRUE
  ELSE IF ~sess.staged_api \/ decl.const_unstable THEN TRUE
  ELSE feature_gate \in decl.allow

\* a diagnostic: level, code, span (the item it lies in), the primary gate, the
\* help notes, the note; the message text is left to the renderer
Diag(level, code, span, primary, help, note) == [level |-> level, code |-> code, span |-> span, primary |-> primary, help |-> help, note |-> note]
\* struct_span_err!(.., E0744, ..)
PlainError(span) == Diag("error", "E0744", span, None, <<>>, <<>>)
\* feature_err(.., missing_primary, ..) with its help notes
FeatureError(span, primary, help) == Diag("error", "feature_err", span, primary, help, <<>>)
\* span_warn(span, "skipping const checks")
SkipWarning(span) == Diag("warning", "skipping", span, None, <<>>, <<>>)
\* const_kind.expect(..) on None
ExpectPanic(span) == Diag("panic", "expect", span, None, <<>>, <<>>)

\* Iterator::all over the gate list
AllAllowed(gates, def, decl, sess) == \A i \in 1 .. Len(gates) : is_feature_allowed(gates[i], def, decl, sess)

\* variant: every required gate counts as missing
missing_gates_unfiltered(gates, sess) == gates

\* the gates of the list that features.enabled rejects, in list order
missing_gates(gates, sess) == SelectSeq(gates, LAMBDA g : g \notin sess.features)

\* variant: the help notes are added on every build
secondary_help_always(missing, sess) == Tail(missing)

\* the help notes for missing_secondary
secondary_help(missing, sess) == IF sess.nightly THEN Tail(missing) ELSE <<>>

\* the diagnostic for a rejected construct
synthesize(span, missing, sess) ==
  IF missing = <<>> THEN PlainError(span)
  ELSE FeatureError(span, Head(missing), secondary_help(missing, sess))

(* const_check_violated from the required gates on; yields what it emits *)
const_check_gates(required, span, kind, def, decl, sess) ==
  IF required.some /\ AllAllowed(required.gates, def, decl, sess) THEN <<>>
  ELSE IF ~required.some /\ sess.unleash THEN <<SkipWarning(span)>>
  ELSE IF kind = None THEN <<ExpectPanic(span)>>
  ELSE <<synthesize(span, missing_gates(required.gates, sess), sess)>>

const_check_violated(expr, span, kind, def, decl, sess) ==
  const_check_gates(required_feature_gates(expr), span, kind, def, decl, sess)

(* visit_expr up to walk_expr: the construct it hands on, and what is emitted *)
\* no call of const_check_violated
NotHanded == [tag |-> "None", src |-> "None"]

\* variant: every Match is handed on, the for loop's desugared one too
handed_with_for_desugar(e, kind) == IF kind = None THEN NotHanded ELSE IF e.tag \in {"Loop", "Match"} THEN e ELSE NotHanded

handed(e, kind) ==
  IF kind = None THEN NotHanded
  ELSE IF e.tag = "Loop" THEN e
  ELSE IF e.tag = "Match" /\ e.src # "ForLoopDesugar" THEN e
  ELSE NotHanded

visit_expr(e, span, kind, def, decl, sess) ==
  LET h == handed(e, kind)
  IN  [handed |-> h, emitted |-> IF h = NotHanded THEN <<>> ELSE const_check_violated(h, span, kind, def, decl, sess)]

----------------------------------------------------------------------------
(* check_item *)

\* an associated item of the trait, as check_item reads it
TraitItems == [kind : {"Fn", "Type"}, has_value : BOOLEAN, body_is_const : BOOLEAN, leaf : {"None", "Impl", "Trait"}]
\* a trait function with a default body that is not default_method_body_is_const
DefaultFns == {t \in TraitItems : t.kind = "Fn" /\ t.has_value /\ ~t.body_is_const}

SeqsUpTo(S, n) == UNION {[1 .. k -> S] : k \in 0 .. n}

\* hir::Item as check_item reads it
ItemsOver(assocs) == [kind : {"Impl", "Other"}, constness : {"Const", "NotConst"}, of_trait : BOOLEAN, trait_def_id : BOOLEAN, ancestors_ok : BOOLEAN, assoc : assocs]
Items == ItemsOver(SeqsUpTo(TraitItems, MaxTraitItems))
\* the items met by the module walk: any item whose trait, if it is an impl, has
\* at most one function with a non-const default body
WalkItems == {it \in ItemsOver({<<>>} \cup {<<t>> : t \in DefaultFns}) : it.of_trait /\ it.trait_def_id /\ it.ancestors_ok}

\* tcx.item_name of the trait item at a position of the definition order
ItemNames == <<"a", "b", "c", "d">>
item_name(did) == ItemNames[did]

\* ancestors.leaf_def(..).map(|n| !n.defining_node.is_from_trait()).unwrap_or(false)
is_implemented(leaf) == leaf = "Impl"

\* the loop over associated_items(..).in_definition_order()
must_implement(t) == t.kind = "Fn" /\ ~(~t.has_value \/ t.body_is_const) /\ ~is_implemented(t.leaf)

RECURSIVE to_implement_from(_, _)
to_implement_from(assoc, i) ==
  IF i > Len(assoc) THEN <<>>
  ELSE IF must_implement(assoc[i]) THEN <<i>> \o to_implement_from(assoc, i + 1)
  ELSE to_implement_from(assoc, i + 1)

to_implement(assoc) == to_implement_from(assoc, 1)

\* the names of to_implement, joined
not_implemented(ids) == [i \in 1 .. Len(ids) |-> item_name(ids[i])]

ImplError(span, names) == Diag("error", "const_impl", span, None, <<>>, names)

\* variant: one error for each function
check_item_per_function(item, span) == IF item.kind = "Impl" /\ item.constness = "Const" /\ item.of_trait /\ item.trait_def_id /\ item.ancestors_ok THEN LET ids == to_implement(item.assoc) IN [i \in 1 .. Len(ids) |-> ImplError(span, <<item_name(ids[i])>>)] ELSE <<>>

check_item(item, span) ==
  IF ~(item.kind = "Impl" /\ item.constness = "Const") THEN <<>>
  ELSE IF ~item.of_trait \/ ~item.trait_def_id THEN <<>>
  ELSE IF ~item.ancestors_ok THEN <<>>
  ELSE LET ids == to_implement(item.assoc)
       IN  IF ids = <<>> THEN <<>> ELSE <<ImplError(span, not_implemented(ids))>>

----------------------------------------------------------------------------
(* CheckConstVisitor: its fields, and the calls of recurse_into in progress *)

\* the visitor's two fields
Fields(kind, def) == [const_kind |-> kind, def_id |-> def]

\* a call in progress: the method, the node it visits (for a body, the owner and
\* the owner's body_const_context) and recurse_into's two saved locals
Frame(fn, ctx, owner, parent_kind, parent_def_id) == [fn |-> fn, ctx |-> ctx, owner |-> owner, parent_kind |-> parent_kind, parent_def_id |-> parent_def_id]
ItemFrame == Frame("visit_item", None, NoDefId, None, NoDefId)

\* CheckConstVisitor::new
new == Fields(None, NoDefId)

(* recurse_into before f: the saved locals and the fields f runs under *)
recurse_into(kind, def, cur) ==
  [parent_kind |-> cur.const_kind, parent_def_id |-> cur.def_id, now |-> Fields(kind, def)]

\* variant: only const_kind is restored
recurse_into_return_kind_only(frame, cur) == Fields(frame.parent_kind, cur.def_id)

\* variant: only def_id is restored
recurse_into_return_def_only(frame, cur) == Fields(cur.const_kind, frame.parent_def_id)

(* recurse_into after f *)
recurse_into_return(frame, cur) ==
  Fields(frame.parent_kind, frame.parent_def_id)

\* visit_anon_const: recurse_into(Some(Const), None, walk_anon_const)
visit_anon_const(cur) == recurse_into("Const", NoDefId, cur)

\* visit_body: recurse_into(body_const_context(owner), Some(owner), walk_body)
visit_body(owner, ctx, cur) == recurse_into(ctx, owner, cur)

\* variant: check_item is called before walk_item
visit_item_check_first == <<"check_item", "walk_item">>

\* visit_item: the order of walk_item and check_item
visit_item_order == <<"walk_item", "check_item">>

----------------------------------------------------------------------------
(* The walk of one module *)

Top == stack[Len(stack)]
\* intravisit's walk of a node: the visitor methods it calls for the node's
\* children. An item holds bodies and anonymous consts; a body holds expressions
\* and, inside them, closure bodies and anonymous consts; an anonymous const
\* holds its body or its expressions. walk_expr keeps the fields as they are, so
\* the children of an expression are visited as further children of its scope.
walk(fn) ==
  IF fn = "visit_item" THEN {"visit_body", "visit_anon_const"}
  ELSE IF fn = "visit_body" THEN {"visit_expr", "visit_body", "visit_anon_const"}
  ELSE {"visit_expr", "visit_body"}
Cur == Fields(const_kind, def_id)
Op(op, seen) == [op |-> op, seen |-> seen]
NoProbe == [op |-> "none"]

\* the sessions of the walk: any set of enabled gates, with or without
\* -Zunleash-the-miri-inside-of-you, on a nightly staged_api build
WalkSessions == {s \in Sessions : s.staged_api /\ s.nightly}
\* the declarations of the walk: a stable and an unstable const fn, outside traits
WalkDecls == {d \in Decls : ~d.in_trait /\ d.allow = {}}

InitWith(S) ==
  /\ session \in S
  /\ const_kind = new.const_kind
  /\ def_id = new.def_id
  /\ stack = <<>>
  /\ diags = <<>>
  /\ items = 0
  /\ last = Op("other", None)
  /\ probe = NoProbe

\* check_mod_const_bodies: a fresh visitor
Init == InitWith(WalkSessions)

\* what visit_item emits at one of its two steps
ItemStep(step, item, span) == IF visit_item_order[step] = "check_item" THEN check_item(item, span) ELSE <<>>

Nested(ds) == SelectSeq(ds, LAMBDA d : d.code # "const_impl")

\* deep_visit_item_likes_in_module hands the next item to visit_item
VisitItem ==
  /\ stack = <<>>
  /\ items < MaxItems
  /\ \E item \in WalkItems : diags' = diags \o ItemStep(1, item, items + 1)
  /\ items' = items + 1
  /\ stack' = <<ItemFrame>>
  /\ last' = Op("other", None)
  /\ UNCHANGED <<session, const_kind, def_id, probe>>

\* walk_item, walk_anon_const or (through walk_expr) walk_body reaches a body
VisitBody ==
  /\ stack # <<>>
  /\ Len(stack) <= MaxDepth
  /\ "visit_body" \in walk(Top.fn)
  /\ \E owner \in DefIds, ctx \in ConstContext \cup {None} :
       LET r == visit_body(owner, ctx, Cur)
       IN  /\ stack' = Append(stack, Frame("visit_body", ctx, owner, r.parent_kind, r.parent_def_id))
           /\ const_kind' = r.now.const_kind
           /\ def_id' = r.now.def_id
  /\ last' = Op("other", None)
  /\ UNCHANGED <<session, diags, items, probe>>

\* walk_item or (through walk_expr) walk_body reaches an anonymous const
VisitAnonConst ==
  /\ stack # <<>>
  /\ Len(stack) <= MaxDepth
  /\ "visit_anon_const" \in walk(Top.fn)
  /\ LET r == visit_anon_const(Cur)
     IN  /\ stack' = Append(stack, Frame("visit_anon_const", None, NoDefId, r.parent_kind, r.parent_def_id))
         /\ const_kind' = r.now.const_kind
         /\ def_id' = r.now.def_id
  /\ last' = Op("other", None)
  /\ UNCHANGED <<session, diags, items, probe>>

\* walk_body, walk_anon_const or walk_expr reaches an expression; walk_expr then
\* goes on to its children under the same fields
VisitExpr ==
  /\ stack # <<>>
  /\ "visit_expr" \in walk(Top.fn)
  /\ \E e \in ExprKind, decl \in WalkDecls :
       LET r == visit_expr(e, items, const_kind, def_id, decl, session)
       IN  /\ Len(Nested(diags \o r.emitted)) <= MaxDiags
           /\ diags' = diags \o r.emitted
  /\ last' = Op("visit_expr", const_kind)
  /\ UNCHANGED <<session, const_kind, def_id, stack, items, probe>>

\* f is through: recurse_into restores the fields and returns
ReturnScope ==
  /\ stack # <<>>
  /\ Top.fn \in {"visit_body", "visit_anon_const"}
  /\ LET r == recurse_into_return(Top, Cur)
     IN  /\ const_kind' = r.const_kind
         /\ def_id' = r.def_id
  /\ stack' = SubSeq(stack, 1, Len(stack) - 1)
  /\ last' = Op("return_scope", None)
  /\ UNCHANGED <<session, diags, items, probe>>

\* walk_item is through: visit_item calls check_item and returns
ReturnItem ==
  /\ stack # <<>>
  /\ Top.fn = "visit_item"
  /\ \E item \in WalkItems : diags' = diags \o ItemStep(2, item, items)
  /\ stack' = <<>>
  /\ last' = Op("return_item", None)
  /\ UNCHANGED <<session, const_kind, def_id, items, probe>>

Next ==
  \/ VisitItem
  \/ VisitBody
  \/ VisitAnonConst
  \/ VisitExpr
  \/ ReturnScope
  \/ ReturnItem

Spec == Init /\ [][Next]_vars

----------------------------------------------------------------------------
(* visit_expr and const_check_violated on one node, from any visitor state *)

InitCheck == InitWith(Sessions)

\* a visitor whose fields are (kind, def) visits the expression e
ProbeVisitExpr ==
  /\ probe = NoProbe
  /\ \E e \in ExprKind, kind \in ConstContext \cup {None}, def \in DefIds \cup {NoDefId}, decl \in Decls :
       LET r == visit_expr(e, items, kind, def, decl, session)
       IN  /\ probe' = [op |-> "visit_expr", expr |-> e, kind |-> kind, def |-> def, decl |-> decl, out |-> r]
           /\ const_kind' = kind
           /\ def_id' = def
           /\ diags' = r.emitted
  /\ UNCHANGED <<session, stack, items, last>>

\* a visitor in the const context kind calls const_check_violated(expr, span)
ProbeConstCheck ==
  /\ probe = NoProbe
  /\ \E expr \in NonConstExpr, kind \in ConstContext, def \in DefIds \cup {NoDefId}, decl \in Decls :
       LET out == const_check_violated(expr, items, kind, def, decl, session)
       IN  /\ probe' = [op |-> "const_check_violated", expr |-> expr, kind |-> kind, def |-> def, decl |-> decl, out |-> out]
           /\ const_kind' = kind
           /\ def_id' = def
           /\ diags' = out
  /\ UNCHANGED <<session, stack, items, last>>

NextCheck ==
  \/ ProbeVisitExpr
  \/ ProbeConstCheck

SpecCheck == InitCheck /\ [][NextCheck]_vars

(* const_check_violated's gate resolution on any ordered gate list *)

InitGates == InitWith(Sessions)

GateLists == SeqsUpTo(Gates, MaxGates)

ProbeGates ==
  /\ probe = NoProbe
  /\ \E gates \in GateLists, kind \in ConstContext, def \in DefIds \cup {NoDefId}, decl \in Decls :
       LET out == const_check_gates(SomeGates(gates), items, kind, def, decl, session)
       IN  /\ probe' = [op |-> "gates", gates |-> gates, kind |-> kind, def |-> def, decl |-> decl, out |-> out]
           /\ const_kind' = kind
           /\ def_id' = def
           /\ diags' = out
  /\ UNCHANGED <<session, stack, items, last>>

NextGates == ProbeGates

SpecGates == InitGates /\ [][NextGates]_vars

(* check_item on any item *)

InitItem == InitWith({s \in Sessions : s.features = {} /\ s.staged_api /\ s.nightly /\ ~s.unleash})

ProbeItem ==
  /\ probe = NoProbe
  /\ \E item \in Items :
       LET out == check_item(item, items)
       IN  /\ probe' = [op |-> "check_item", item |-> item, out |-> out]
           /\ diags' = out
  /\ UNCHANGED <<session, const_kind, def_id, stack, items, last>>

NextItem == ProbeItem

SpecItem == InitItem /\ [][NextItem]_vars

----------------------------------------------------------------------------
(* Properties *)

ScopeFns == {"visit_body", "visit_anon_const"}
\* the pair a scope node pushes: (Const, none) for an anonymous const, the owner's
\* body_const_context and the owner for a body
ScopeKind(f) == IF f.fn = "visit_anon_const" THEN "Const" ELSE f.ctx
ScopeDef(f) == IF f.fn = "visit_anon_const" THEN NoDefId ELSE f.owner
ScopeIdx(st) == {i \in 1 .. Len(st) : st[i].fn \in ScopeFns}
Innermost(st) == CHOOSE i \in ScopeIdx(st) : \A j \in ScopeIdx(st) : j <= i
EnclosingKind(st) == IF ScopeIdx(st) = {} THEN None ELSE ScopeKind(st[Innermost(st)])
EnclosingDef(st) == IF ScopeIdx(st) = {} THEN NoDefId ELSE ScopeDef(st[Innermost(st)])

\* C1: the const_kind that visit_expr reads at an expression is the context kind
\* pushed by the nearest enclosing body or anonymous const (Const for an anonymous
\* const, the owner's body_const_context, possibly absent, for a body), and absent
\* when no such scope encloses the expression.
C1_ObservedContext == last.op = "visit_expr" => last.seen = EnclosingKind(stack)

\* an expression of a closure body (no const context) inside a const fn body
C1_Witness ==
  /\ last.op = "visit_expr"
  /\ Len(stack) = 3
  /\ stack[2].fn = "visit_body" /\ stack[2].ctx = "ConstFn"
  /\ stack[3].fn = "visit_body" /\ stack[3].ctx = None
  /\ last.seen = None

\* C2: recurse_into leaves const_kind and def_id as they were on entry: in every
\* state the pair is the one pushed by the innermost scope still open, so after a
\* scope returns it is again the enclosing scope's pair, whatever was raised
\* inside, and with no scope open (between items, after the walk) it is
\* (absent, absent).
C2_PairRestored ==
  /\ const_kind = EnclosingKind(stack)
  /\ def_id = EnclosingDef(stack)
  /\ (ScopeIdx(stack) = {} => Cur = new)

\* the scopes of an item have returned after a diagnostic was raised inside one
C2_Witness ==
  /\ last.op = "return_scope"
  /\ stack = <<ItemFrame>>
  /\ diags # <<>>
  /\ diags[Len(diags)].span = items
  /\ Cur = new

\* the four-step policy for one gate, as the documentation states it
PolicyAllows(g, def, decl, sess) ==
  /\ g \in sess.features
  /\ \/ def = NoDefId
     \/ decl.in_trait
     \/ ~sess.staged_api
     \/ decl.const_unstable
     \/ g \in decl.allow
\* the constructs with a non-empty required gate list, and their gate
Gated == {Loop("ForLoop"), Match("ForLoopDesugar"), Match("TryDesugar")}
GateOf(expr) == IF expr = Match("TryDesugar") THEN "const_try" ELSE "const_for"

\* C3: for a construct with a non-empty required gate list, const_check_violated
\* emits nothing if and only if every required gate is globally enabled and
\* passes the stability policy (no declaration, a trait's declaration, no
\* staged_api, rustc_const_unstable, or the gate on the declaration's allow list).
C3_PolicyDecides ==
  (probe.op = "const_check_violated" /\ probe.expr \in Gated) =>
    (probe.out = <<>> <=> PolicyAllows(GateOf(probe.expr), probe.def, probe.decl, session))

\* a gate that is not enabled is refused although the allow list names it
C3_Witness ==
  /\ probe.op = "const_check_violated"
  /\ probe.expr = Match("TryDesugar")
  /\ "const_try" \notin session.features
  /\ probe.def # NoDefId /\ ~probe.decl.in_trait /\ ~probe.decl.const_unstable /\ session.staged_api
  /\ "const_try" \in probe.decl.allow
  /\ probe.out # <<>>

HasError(out) == \E i \in 1 .. Len(out) : out[i].level = "error"

\* C4 as stated: an await desugaring never produces an error, in any context, under
\* any features and stability settings, with or without the unleash flag.
C4_AwaitNeverRejected ==
  (probe.op = "const_check_violated" /\ probe.expr = Match("AwaitDesugar")) => ~HasError(probe.out)

\* C4, amended: for an await desugaring const_check_violated emits only the
\* "skipping const checks" warning when the unleash flag is set, and the plain
\* E0744 error otherwise, whatever the features and the enclosing declaration.
C4_AwaitRejectedUnlessUnleashed ==
  (probe.op = "const_check_violated" /\ probe.expr = Match("AwaitDesugar")) =>
    probe.out = IF session.unleash THEN <<SkipWarning(items)>> ELSE <<PlainError(items)>>

\* an await desugaring rejected with both gates enabled
C4_Witness ==
  /\ probe.op = "const_check_violated"
  /\ probe.expr = Match("AwaitDesugar")
  /\ ~session.unleash
  /\ session.features = Gates
  /\ probe.out = <<PlainError(items)>>

\* C5 as stated: a for loop visited in a const context is rejected whenever
\* const_for is not enabled and accepted whenever it is enabled, for every
\* enclosing declaration and stability setting.
C5_ForLoopFollowsFeature ==
  (probe.op = "visit_expr" /\ probe.expr = Loop("ForLoop") /\ probe.kind # None) =>
    (probe.out.emitted = <<>> <=> "const_for" \in session.features)

\* C5, amended: a for loop visited in a const context is rejected with a
\* const_for feature error whenever const_for is not enabled; with const_for
\* enabled it is accepted when the stability policy allows const_for for the
\* enclosing declaration and rejected with the plain E0744 error otherwise.
C5_ForLoopFollowsFeatureAndStability ==
  (probe.op = "visit_expr" /\ probe.expr = Loop("ForLoop") /\ probe.kind # None) =>
    probe.out.emitted =
      IF "const_for" \notin session.features THEN <<FeatureError(items, "const_for", <<>>)>>
      ELSE IF PolicyAllows("const_for", probe.def, probe.decl, session) THEN <<>>
      ELSE <<PlainError(items)>>

\* a for loop in a stable const fn of a staged_api crate, const_for enabled
C5_Witness ==
  /\ probe.op = "visit_expr"
  /\ probe.expr = Loop("ForLoop")
  /\ probe.kind = "ConstFn"
  /\ "const_for" \in session.features
  /\ session.staged_api /\ probe.def # NoDefId
  /\ ~probe.decl.in_trait /\ ~probe.decl.const_unstable /\ "const_for" \notin probe.decl.allow
  /\ probe.out.emitted = <<PlainError(items)>>

\* C6: visit_expr never hands a Match of source ForLoopDesugar to
\* const_check_violated, and emits nothing for it; the Loop node of the same for
\* loop yields at most one diagnostic.
C6_ForDesugarNotChecked ==
  probe.op = "visit_expr" =>
    /\ probe.out.handed # Match("ForLoopDesugar")
    /\ (probe.expr = Match("ForLoopDesugar") => probe.out.emitted = <<>>)
    /\ (probe.expr = Loop("ForLoop") => Len(probe.out.emitted) <= 1)

\* the desugared match of a for loop, in a const context, const_for not enabled
C6_Witness ==
  /\ probe.op = "visit_expr"
  /\ probe.expr = Match("ForLoopDesugar")
  /\ probe.kind = "Const"
  /\ "const_for" \notin session.features
  /\ probe.out.handed = NotHanded
  /\ probe.out.emitted = <<>>

\* the positions of a gate list whose gate is not globally enabled
NotEnabled(gates, sess) == {i \in 1 .. Len(gates) : gates[i] \notin sess.features}

\* C7: when the required gate list holds a gate that is not globally enabled,
\* const_check_violated emits exactly one diagnostic, a feature error whose
\* primary gate is the first not-enabled gate of the list; its help notes are as
\* many as the remaining not-enabled gates on a nightly build, and none otherwise.
C7_PrimaryAndHints ==
  (probe.op = "gates" /\ NotEnabled(probe.gates, session) # {}) =>
    LET miss == NotEnabled(probe.gates, session)
        first == CHOOSE i \in miss : \A j \in miss : i <= j
    IN  /\ Len(probe.out) = 1
        /\ probe.out[1].level = "error"
        /\ probe.out[1].code = "feature_err"
        /\ probe.out[1].primary = probe.gates[first]
        /\ Len(probe.out[1].help) = IF session.nightly THEN Cardinality(miss) - 1 ELSE 0

\* gates [const_for, const_try], none enabled, on a nightly build: one hint
C7_Witness ==
  /\ probe.op = "gates"
  /\ probe.gates = <<"const_for", "const_try">>
  /\ session.features = {}
  /\ session.nightly
  /\ probe.out = <<FeatureError(items, "const_for", <<"const_try">>)>>

\* the trait functions with a default body, without default_method_body_is_const,
\* that the impl itself does not override
Unresolved(assoc) == {i \in 1 .. Len(assoc) : assoc[i].kind = "Fn" /\ assoc[i].has_value /\ ~assoc[i].body_is_const /\ assoc[i].leaf # "Impl"}
NamePos(n) == CHOOSE i \in 1 .. Len(ItemNames) : ItemNames[i] = n
\* one error whose note lists exactly the names of U, in definition order
OneErrorNaming(out, assoc) ==
  /\ Len(out) = 1
  /\ out[1].level = "error"
  /\ out[1].code = "const_impl"
  /\ Len(out[1].note) = Cardinality(Unresolved(assoc))
  /\ {NamePos(out[1].note[k]) : k \in 1 .. Len(out[1].note)} = Unresolved(assoc)
  /\ \A k \in 1 .. Len(out[1].note) - 1 : NamePos(out[1].note[k]) < NamePos(out[1].note[k + 1])
ExpectedForImpl(out, assoc) == IF Unresolved(assoc) = {} THEN out = <<>> ELSE OneErrorNaming(out, assoc)

\* C8 as stated: for a const impl of a trait check_item emits nothing when every
\* such function is overridden and otherwise exactly one error naming all the
\* non-overridden ones in definition order; nothing for any other item.
C8_OneErrorPerConstImpl ==
  probe.op = "check_item" =>
    IF probe.item.kind = "Impl" /\ probe.item.constness = "Const" /\ probe.item.of_trait
    THEN ExpectedForImpl(probe.out, probe.item.assoc)
    ELSE probe.out = <<>>

\* C8, amended: the same for a const impl whose trait reference resolves to a
\* trait (trait_def_id) and whose ancestors lookup succeeds; check_item emits
\* nothing for an impl where either fails, as for a non-const impl or an impl
\* that is not of a trait.
C8_OneErrorPerResolvedConstImpl ==
  probe.op = "check_item" =>
    IF /\ probe.item.kind = "Impl" /\ probe.item.constness = "Const" /\ probe.item.of_trait
       /\ probe.item.trait_def_id /\ probe.item.ancestors_ok
    THEN ExpectedForImpl(probe.out, probe.item.assoc)
    ELSE probe.out = <<>>

\* two default functions left to the trait: one error naming both
C8_Witness ==
  /\ probe.op = "check_item"
  /\ Len(probe.item.assoc) = 2
  /\ Unresolved(probe.item.assoc) = {1, 2}
  /\ probe.out = <<ImplError(items, <<"a", "b">>)>>

\* C9: in the sink, every diagnostic raised for a construct nested in an item
\* precedes the missing-override error of that item.
C9_NestedBeforeImplError ==
  \A i, j \in 1 .. Len(diags) :
    (diags[i].code = "const_impl" /\ diags[j].code # "const_impl" /\ diags[i].span = diags[j].span) => j < i

\* an item with a nested diagnostic and a missing-override error
C9_Witness ==
  \E i, j \in 1 .. Len(diags) :
    /\ i < j
    /\ diags[i].code # "const_impl" /\ diags[i].level = "error"
    /\ diags[j].code = "const_impl"
    /\ diags[i].span = diags[j].span

\* the gates a construct requires, as a set
RequiredSet(expr) == IF expr \in Gated THEN {GateOf(expr)} ELSE {}

\* C10 as stated: const_check_violated never emits the plain E0744 error; every
\* error it emits is a feature error whose primary gate is a required gate of the
\* construct that is not enabled.
C10_NeverPlainError ==
  probe.op = "const_check_violated" =>
    \A i \in 1 .. Len(probe.out) :
      probe.out[i].level = "error" =>
        /\ probe.out[i].code = "feature_err"
        /\ probe.out[i].primary \in RequiredSet(probe.expr) \ session.features

\* C10, amended: const_check_violated emits the plain E0744 error exactly for an
\* await desugaring without the unleash flag and for a construct whose required
\* gates are all enabled while the stability policy refuses one for the enclosing
\* declaration; every other error it emits is a feature error whose primary gate
\* is a required gate of the construct that is not enabled.
C10_PlainErrorOnlyWithoutMissingGate ==
  probe.op = "const_check_violated" =>
    /\ (\E i \in 1 .. Len(probe.out) : probe.out[i].code = "E0744") <=>
         \/ probe.expr = Match("AwaitDesugar") /\ ~session.unleash
         \/ /\ probe.expr \in Gated
            /\ GateOf(probe.expr) \in session.features
            /\ ~PolicyAllows(GateOf(probe.expr), probe.def, probe.decl, session)
    /\ \A i \in 1 .. Len(probe.out) :
         (probe.out[i].level = "error" /\ probe.out[i].code # "E0744") =>
           /\ probe.out[i].code = "feature_err"
           /\ probe.out[i].primary \in RequiredSet(probe.expr) \ session.features

\* a `?` in a stable const fn of a staged_api crate with const_try enabled
C10_Witness ==
  /\ probe.op = "const_check_violated"
  /\ probe.expr = Match("TryDesugar")
  /\ "const_try" \in session.features
  /\ probe.out = <<PlainError(items)>>

====
